---- MODULE Spec2Model ----
(***************************************************************************)
(* Argus backend: proposal lifecycle and execution pipeline.               *)
(*                                                                         *)
(* Model of backend/server.js (propose / confirm handlers, step executor), *)
(* backend/src/actionHandlers.js (direct VM actions with idempotency key), *)
(* the proposal store, the lock manager and backend/services/sanitize.js.  *)
(*                                                                         *)
(* Node.js runs every handler on one event loop: the code between two      *)
(* `await`s on real I/O is one atomic step, so every action below is the   *)
(* synchronous segment of a handler from one suspension point to the next. *)
(* A text is a sequence of words (the runs between whitespace or quotes);  *)
(* a word is a sequence of lexemes: plain strings, sensitive literals,     *)
(* `key=` prefixes and placeholders.                                       *)
(***************************************************************************)
EXTENDS Integers, Sequences, FiniteSets, TLC

----------------------------------------------------------------------------
(* Bounds of the model *)

MaxProposals == 1      \* propose requests
MaxConfirms  == 2      \* confirm requests
MaxSubmits   == 2      \* direct action requests
MaxTime      == 1      \* clock ticks
MaxOps       == 2      \* handlers started when confirms and direct actions mix
MaxCalls     == 3      \* direct calls of sanitizeForLLM / rehydrateFromLLM
MaxCounter   == 8      \* highest placeholder number told apart
MaxRecords   == 2      \* proposal ids the sanitizer is called with directly

(* Program constants (time unit: one tick) *)

DEFAULT_TTL_MS == 1    \* sanitize.js: TTL of a redaction record
MAX_ATTEMPTS   == 2    \* server.js executeWithRetry: while (attempt < 2)

----------------------------------------------------------------------------
(* Inputs *)

Users  == {"alice", "bob"}
Tokens == {"k1", "k2"}
ProposalIds == 1..MaxProposals
ConfirmIds  == 1..MaxConfirms
SubmitIds   == 1..MaxSubmits
RecordIds   == 1..MaxRecords

\* What the notification sink does with one notification.
NotifyOutcomes == {"sent", "failed"}

\* Outcome of one remote call: the API answers, fails, or the timer wins.
Outcomes == {"ok", "E1", "timeout"}

Step(a, n, v) == [action |-> a, node |-> n, vmid |-> v, numeric |-> TRUE]

\* Step lists a generator response may carry.
Plans ==
  { << Step("stop", "nodeA", 100), Step("start", "nodeA", 100) >>,
    << Step("start", "nodeA", 100) >>,
    << Step("stop", "[REDACTED_IP_1]", 100) >>,
    << Step("start", "nodeA", 100), Step("delete", "nodeA", 100) >>,
    << Step("REBOOT", "nodeA", 100) >>,
    << Step("start", "", 100) >>,
    << [Step("start", "nodeA", 100) EXCEPT !.numeric = FALSE] >> }

\* What the generator sends back: no usable response, content that is not JSON,
\* or a JSON document that conforms to proposal.schema.json or does not.
Answers ==
  { [kind |-> "failed",  conforms |-> FALSE, steps |-> << >>],
    [kind |-> "notJSON", conforms |-> FALSE, steps |-> << >>],
    [kind |-> "object",  conforms |-> FALSE, steps |-> << Step("reboot", "nodeA", 100) >>] }
  \cup { [kind |-> "object", conforms |-> TRUE, steps |-> plan] : plan \in Plans }

\* Prompt and cluster context of a propose request.
Requests ==
  { [prompt |-> << <<"stop">>, <<"10.0.0.5">> >>, context |-> << <<"nodeA">> >>],
    [prompt |-> << <<"restart">>, <<"vm">> >>,    context |-> << <<"nodeA">> >>],
    [prompt |-> << <<"password=", "hunter2">>, <<"hunter2">> >>,
     context |-> << <<"nodeA">> >>] }

\* Texts handed to sanitizeForLLM directly.
Texts ==
  { << >>,
    << <<"restart">>, <<"vm">> >>,
    << <<"stop">>, <<"10.0.0.5">> >>,
    << <<"user@example.com">>, <<"10.0.0.5">>, <<"10.0.0.6">> >>,
    << <<"password=", "hunter2">> >>,
    << <<"secret=", "sk-ABCDEFGHIJKLMNOPQRSTUVWX">> >>,
    << <<"secret=", "xx:", "sk-ABCDEFGHIJKLMNOPQRSTUVWX">> >> }

\* Texts handed to rehydrateFromLLM besides the sanitized ones.
Outputs ==
  { << <<"nodeA">> >>,
    << <<"stop">>, <<"[REDACTED_IP_1]">> >>,
    << <<"[REDACTED_IP_1]">>, <<"[REDACTED_MAC_1]">> >> }

\* Targets of direct actions (actionSchema: node string, vmid >= 100).
SubmitTargets == { << "nodeA", 100 >>, << "nodeB", 101 >> }
SubmitActions == { "start", "stop" }

----------------------------------------------------------------------------
(* sanitize.js *)

PLACEHOLDER_TYPES == {"TOKEN", "PASSWORD", "EMAIL", "IP", "UUID", "MAC"}

\* PATTERNS, in order: the type each regex mints.
PATTERNS == << "TOKEN", "TOKEN", "TOKEN", "PASSWORD", "EMAIL", "IP", "IP", "UUID", "MAC" >>

\* Which regex of PATTERNS matches a lexeme as a whole.
PatternMatches(k, tok) ==
  CASE k = 1 -> tok \in {"sk-ABCDEFGHIJKLMNOPQRSTUVWX"}
    [] k = 5 -> tok \in {"user@example.com"}
    [] k = 6 -> tok \in {"10.0.0.5", "10.0.0.6"}
    [] OTHER -> FALSE

\* Lexemes the lookbehind of the PASSWORD regex accepts:
\* (?<=\b(?:password|passphrase|secret)\s*[:=]\s*['"]?)
PasswordKeys == {"password=", "passphrase=", "secret="}

\* Does regex k match at lexeme i of a word, and up to which lexeme?  The
\* PASSWORD regex [^'"\s,}]+ runs from the lexeme after the key to the end of the
\* word; the other regexes match one lexeme.
MatchEnd(k, word, i) ==
  IF k = 4
    THEN IF i > 1 /\ word[i - 1] \in PasswordKeys THEN Len(word) ELSE 0
    ELSE IF PatternMatches(k, word[i]) THEN i ELSE 0

\* Variant: the category is left out of the placeholder.
PlaceholderNameUntyped(type, n) == "[REDACTED_" \o ToString(n) \o "]"

\* `${PLACEHOLDER_PREFIX}${type}_${n}]`
PlaceholderName(type, n) == "[REDACTED_" \o type \o "_" \o ToString(n) \o "]"

\* Lexemes that contain PLACEHOLDER_PREFIX ("[REDACTED_").
PlaceholderShaped == { PlaceholderName(t, n) : t \in PLACEHOLDER_TYPES, n \in 1..MaxCounter }

\* value.startsWith(PLACEHOLDER_PREFIX) && value.endsWith(']'), for one lexeme
isAlreadyPlaceholder(value) == value \in PlaceholderShaped

\* The same test on a match of one or more lexemes: only placeholders start with
\* the prefix, and only they end with ']'.
matchIsPlaceholder(match) ==
  isAlreadyPlaceholder(match[1]) /\ isAlreadyPlaceholder(match[Len(match)])

\* hydrated.includes(PLACEHOLDER_PREFIX)
includesPrefix(text) ==
  \E i \in DOMAIN text : \E j \in DOMAIN text[i] : text[i][j] \in PlaceholderShaped

\* The characters of a word: its lexemes, concatenated.
RECURSIVE join(_)
join(word) == IF word = << >> THEN "" ELSE Head(word) \o join(Tail(word))

NoCounters == [t \in PLACEHOLDER_TYPES |-> 0]

\* Variant: nothing expires.
pruneNothing(store, t) == store

\* pruneExpiredMappings: delete every record whose deadline has passed.
pruneExpiredMappings(store, t) ==
  [p \in { q \in DOMAIN store : ~(store[q].expiresAt <= t) } |-> store[p]]

\* ensureRecord: prune, then create the record or extend its deadline.
ensureRecord(store, proposalId, t) ==
  LET pruned == pruneExpiredMappings(store, t) IN
    IF proposalId \in DOMAIN pruned
      THEN [pruned EXCEPT ![proposalId].expiresAt = t + DEFAULT_TTL_MS]
      ELSE pruned @@ (proposalId :> [mappings |-> << >>, counters |-> NoCounters,
                                     expiresAt |-> t + DEFAULT_TTL_MS])

\* One regex over one word, left to right: acc = [word, rec, n], where acc.word is
\* the part of the result built so far.  A match that is a placeholder is kept;
\* any other match is replaced by a new placeholder that maps to the match.
RECURSIVE ReplaceInWord(_, _, _, _)
ReplaceInWord(k, word, i, acc) ==
  IF i > Len(word) THEN acc
  ELSE LET e == MatchEnd(k, word, i) IN
    IF e = 0
      THEN ReplaceInWord(k, word, i + 1, [acc EXCEPT !.word = Append(@, word[i])])
    ELSE LET match == SubSeq(word, i, e) IN
      IF matchIsPlaceholder(match)
        THEN ReplaceInWord(k, word, e + 1, [acc EXCEPT !.word = @ \o match])
        ELSE LET type == PATTERNS[k]
                 cnt  == acc.rec.counters[type] + 1
                 ph   == PlaceholderName(type, cnt)
             IN ReplaceInWord(k, word, e + 1,
                  [word |-> Append(acc.word, ph),
                   rec  |-> [acc.rec EXCEPT !.counters[type] = cnt,
                                            !.mappings = Append(@, << ph, match >>)],
                   n    |-> acc.n + 1])

\* workingText.replace(regex, callback): acc = [text, rec, n].
RECURSIVE ReplacePattern(_, _, _)
ReplacePattern(k, i, acc) ==
  IF i > Len(acc.text) THEN acc
  ELSE LET w == ReplaceInWord(k, acc.text[i], 1,
                              [word |-> << >>, rec |-> acc.rec, n |-> acc.n])
       IN ReplacePattern(k, i + 1,
            [text |-> [acc.text EXCEPT ![i] = w.word], rec |-> w.rec, n |-> w.n])

RECURSIVE ApplyPatterns(_, _)
ApplyPatterns(k, acc) ==
  IF k > Len(PATTERNS) THEN acc ELSE ApplyPatterns(k + 1, ReplacePattern(k, 1, acc))

\* sanitizeForLLM(input, proposalId): [text, redactionsApplied, store].
sanitizeForLLM(input, proposalId, store, t) ==
  LET s0  == ensureRecord(store, proposalId, t)
      out == ApplyPatterns(1, [text |-> input, rec |-> s0[proposalId], n |-> 0])
  IN [text |-> out.text,
      redactionsApplied |-> out.n,
      store |-> [s0 EXCEPT ![proposalId] = [out.rec EXCEPT !.expiresAt = t + DEFAULT_TTL_MS]]]

\* word.split(placeholder).join(value)
RECURSIVE SplitJoin(_, _, _)
SplitJoin(word, placeholder, value) ==
  IF word = << >> THEN << >>
  ELSE (IF Head(word) = placeholder THEN value ELSE << Head(word) >>)
       \o SplitJoin(Tail(word), placeholder, value)

\* hydrated.split(placeholder).join(value), for every mapping in insertion order.
RECURSIVE Substitute(_, _, _)
Substitute(text, mappings, j) ==
  IF j > Len(mappings) THEN text
  ELSE Substitute([i \in DOMAIN text |-> SplitJoin(text[i], mappings[j][1], mappings[j][2])],
                  mappings, j + 1)

\* Variant: STORE.delete(proposalId) omitted.
rehydrateKeepsRecord(output, proposalId, store, t) ==
  LET pruned == pruneExpiredMappings(store, t) IN
    IF proposalId \notin DOMAIN pruned
      THEN [threw |-> FALSE, text |-> output, store |-> pruned]
      ELSE LET hydrated == Substitute(output, pruned[proposalId].mappings, 1)
           IN [threw |-> includesPrefix(hydrated), text |-> hydrated, store |-> pruned]

\* rehydrateFromLLM(output, proposalId): [threw, text, store].
rehydrateFromLLM(output, proposalId, store, t) ==
  LET pruned == pruneExpiredMappings(store, t) IN
    IF proposalId \notin DOMAIN pruned
      THEN [threw |-> FALSE, text |-> output, store |-> pruned]
      ELSE LET hydrated == Substitute(output, pruned[proposalId].mappings, 1)
               deleted  == [p \in DOMAIN pruned \ {proposalId} |-> pruned[p]]
           IN [threw |-> includesPrefix(hydrated), text |-> hydrated, store |-> deleted]

----------------------------------------------------------------------------
(* lockManager (acquireLock / releaseLock / buildResourceKey) *)

\* `${node}:${vmid}`: one key per (node, vmid) pair.
buildResourceKey(node, vmid) == << node, vmid >>

\* Variant: the test of acquireLock omitted.
acquireLockBlind(held, key) == TRUE

\* acquireLock(key) returns true iff the key was free ...
acquireLock(held, key) == key \notin held

\* ... and then holds it.
lockSet(held, key) == held \cup {key}

\* Variant: the release empties the table.
releaseLockAll(held, key) == {}

\* Variant: locks.delete(key) omitted.
releaseLockLeak(held, key) == held

releaseLock(held, key) == held \ {key}

----------------------------------------------------------------------------
(* proposalStore *)

\* Variant: reboot is not destructive.
destructiveStopOnly == {"stop"}

destructiveActions == {"stop", "reboot"}
\* Variant: delete is executable too.
allowedWithDelete == {"start", "stop", "reboot", "delete"}

allowedExecutionActions == {"start", "stop", "reboot"}

\* String(action).toLowerCase()
toLowerCase(a) ==
  CASE a = "STOP" -> "stop" [] a = "START" -> "start" [] a = "REBOOT" -> "reboot"
    [] OTHER -> a

isProposalDestructive(steps) ==
  \E i \in DOMAIN steps : toLowerCase(steps[i].action) \in destructiveActions

createProposal(store, id, steps, createdBy, destructive) ==
  store @@ (id :> [steps |-> steps, status |-> "PENDING", createdBy |-> createdBy,
                   approvals |-> {}, destructive |-> destructive, results |-> << >>])

saveApproval(store, id, username) ==
  IF id \notin DOMAIN store THEN store
  ELSE [store EXCEPT ![id].approvals = @ \cup {username}]

\* Variant: the status is left as it was.
markExecutedKeepsStatus(store, id, status, results) ==
  IF id \notin DOMAIN store THEN store
  ELSE [store EXCEPT ![id].results = results]

\* Variant: every result is stored twice.
markExecutedDoubled(store, id, status, results) ==
  IF id \notin DOMAIN store THEN store
  ELSE [store EXCEPT ![id].status = status, ![id].results = results \o results]

markExecuted(store, id, status, results) ==
  IF id \notin DOMAIN store THEN store
  ELSE [store EXCEPT ![id].status = status, ![id].results = results]

----------------------------------------------------------------------------
(* State *)

VARIABLES
  requireDualControl,  \* process.env.REQUIRE_DUAL_CONTROL === 'true'
  issued,              \* proposal ids handed out so far (randomUUID: never reused)
  now,                 \* Date.now(), in ticks
  STORE,               \* sanitize.js STORE: proposal id -> redaction record
  proposals,           \* proposalStore: proposal id -> record
  generating,          \* propose requests: position, generator answer, response
  locks,               \* lockManager: set of held keys
  idempotencyCache,    \* actionHandlers.js: idempotency key -> audit result
  confirms,            \* confirm requests: handler position and locals
  submits,             \* direct action requests: handler position and locals
  calls,               \* remote calls issued so far (performVmAction)
  sanitizerCalls       \* direct calls of sanitizeForLLM / rehydrateFromLLM, in order

vars == << requireDualControl, issued, now, STORE, proposals, generating, locks,
           idempotencyCache, confirms, submits, calls, sanitizerCalls >>

NoResp == [http |-> 0, code |-> "none", message |-> << >>, results |-> << >>]

IdleConfirm ==
  [pc |-> "idle", pid |-> 0, user |-> "none", decision |-> "none", steps |-> << >>,
   index |-> 0, attempt |-> 0, results |-> << >>, executionResults |-> << >>,
   resp |-> NoResp, notified |-> "none"]

IdleSubmit ==
  [pc |-> "idle", key |-> "none", action |-> "none", node |-> "none", vmid |-> 0,
   holds |-> FALSE, resp |-> NoResp, notified |-> "none"]

Init ==
  /\ requireDualControl \in BOOLEAN
  /\ issued = 0
  /\ now = 0
  /\ STORE = << >>
  /\ proposals = << >>
  /\ generating = << >>
  /\ locks = {}
  /\ idempotencyCache = << >>
  /\ confirms = [c \in ConfirmIds |-> IdleConfirm]
  /\ submits = [s \in SubmitIds |-> IdleSubmit]
  /\ calls = {}
  /\ sanitizerCalls = << >>

----------------------------------------------------------------------------
(* Clock and periodic sweep *)

Tick ==
  /\ now < MaxTime
  /\ now' = now + 1
  /\ UNCHANGED << sanitizerCalls, requireDualControl, issued, STORE, proposals, generating, locks,
                  idempotencyCache, confirms, submits, calls >>

\* setInterval(pruneExpiredMappings, GC_INTERVAL_MS)
Sweep ==
  /\ STORE' = pruneExpiredMappings(STORE, now)
  /\ STORE' # STORE
  /\ UNCHANGED << sanitizerCalls, requireDualControl, issued, now, proposals, generating, locks,
                  idempotencyCache, confirms, submits, calls >>

----------------------------------------------------------------------------
(* POST /api/assistant/propose *)

\* Variant: every parsed answer passes.
validateAnything(proposal) == TRUE

\* validate(proposal): the compiled proposal.schema.json
validate(proposal) == proposal.conforms

\* The message generateProposal throws for an answer, "" when it returns.
generateProposalError(answer) ==
  IF answer.kind = "failed" THEN "OpenAI request failed"
  ELSE IF answer.kind = "notJSON" THEN "OpenAI response was not valid JSON"
  ELSE IF ~validate(answer) THEN "Generated proposal failed schema validation"
  ELSE ""

\* Up to `await fetch(...)`: both texts are sanitized under the new id.
ProposeStart(id, user, req) ==
  /\ id \in ProposalIds
  /\ id = issued + 1
  /\ issued' = id
  /\ LET p == sanitizeForLLM(req.prompt, id, STORE, now)
         c == sanitizeForLLM(req.context, id, p.store, now)
     IN /\ STORE' = c.store
        /\ generating' = generating @@ (id :> [pc |-> "waiting", user |-> user,
                             sent |-> c.text \o p.text, answer |-> << >>,
                             resp |-> NoResp])
  /\ UNCHANGED << sanitizerCalls, requireDualControl, now, proposals, locks, idempotencyCache,
                  confirms, submits, calls >>

\* The generator's answer parses and validates: the record is created.
ProposeValid(id, answer) ==
  /\ id \in DOMAIN generating
  /\ generating[id].pc = "waiting"
  /\ generateProposalError(answer) = ""
  /\ proposals' = createProposal(proposals, id, answer.steps, generating[id].user,
                                 isProposalDestructive(answer.steps))
  /\ generating' = [generating EXCEPT ![id] =
                      [@ EXCEPT !.pc = "done", !.answer = answer,
                                !.resp = [http |-> 200, code |-> "OK", message |-> << >>]]]
  /\ UNCHANGED << sanitizerCalls, requireDualControl, issued, now, STORE, locks, idempotencyCache,
                  confirms, submits, calls >>

\* generateProposal throws (request failed, not JSON, schema): 502, no record.
ProposeReject(id, answer) ==
  /\ id \in DOMAIN generating
  /\ generating[id].pc = "waiting"
  /\ generateProposalError(answer) # ""
  /\ generating' = [generating EXCEPT ![id] =
                      [@ EXCEPT !.pc = "done", !.answer = answer,
                                !.resp = [http |-> 502, code |-> "PROPOSAL_GENERATION_FAILED",
                                          message |-> << generateProposalError(answer) >>]]]
  /\ UNCHANGED << sanitizerCalls, requireDualControl, issued, now, STORE, proposals, locks, idempotencyCache,
                  confirms, submits, calls >>

----------------------------------------------------------------------------
(* Step executor: executeProposalSteps / executeWithRetry / runWithTimeout *)

\* JSON.stringify(record.proposal): the words placeholders can occur in.
stringify(steps) == [i \in DOMAIN steps |-> << steps[i].node >>]

\* JSON.parse(hydratedPayload)
parse(text, steps) == [i \in DOMAIN steps |-> [steps[i] EXCEPT !.node = join(text[i])]]

\* error.message of a failed attempt
errorMessage(outcome) == IF outcome = "timeout" THEN "Step timed out" ELSE outcome

\* Variant: one retry too many.
retryExhaustedLate(attempt) == attempt >= MAX_ATTEMPTS + 1

\* executeWithRetry: `if (attempt >= 2) throw lastError`
retryExhausted(attempt) == attempt >= MAX_ATTEMPTS

RemoteCall(by, id, pid, index, attempt, step, approvers, token) ==
  [by |-> by, id |-> id, pid |-> pid, index |-> index, attempt |-> attempt,
   action |-> toLowerCase(step.action), node |-> step.node, vmid |-> step.vmid,
   approvers |-> approvers, token |-> token, outcome |-> "pending", inFlight |-> TRUE]

\* Promise.race of runWithTimeout settles.  When the timer rejects first the
\* promise of performVmAction is dropped, not cancelled: the request goes on.
settle(call, outcome) ==
  [call EXCEPT !.outcome = outcome, !.inFlight = (outcome = "timeout")]

StepResult(index, step, status, detail) ==
  [index |-> index, action |-> toLowerCase(step.action), node |-> step.node,
   vmid |-> step.vmid, status |-> status, detail |-> detail]

\* A response: status, `code` and `message` of the body, and the `results` member
\* of the body (empty when the body has none).
Resp(http, code, message) ==
  [http |-> http, code |-> code, message |-> message, results |-> << >>]

\* The handler answers and returns: its locals are gone.
Returned(me) ==
  [me EXCEPT !.pc = "done", !.steps = << >>, !.index = 0, !.attempt = 0,
             !.results = << >>, !.executionResults = << >>]

\* catch (error) of the confirm handler: markExecuted(id, 'FAILED', executionResults),
\* then `await safeNotifyAssistant`, then 500 EXECUTION_FAILED.
ExecutionFailed(c, me, message, P, L, C) ==
  /\ proposals' = markExecuted(P, me.pid, "FAILED", me.executionResults)
  /\ confirms' = [confirms EXCEPT ![c] =
                    [me EXCEPT !.pc = "notify",
                               !.resp = Resp(500, "EXECUTION_FAILED", message)]]
  /\ locks' = L
  /\ calls' = C

\* The loop body of executeProposalSteps for step `idx` (1-based here), up to the
\* first `await` of executeWithRetry; past the last step the run returns its
\* results and the handler marks the proposal COMPLETED.
EnterStep(c, me, idx, P, L, C) ==
  IF idx > Len(me.steps)
  THEN /\ proposals' = markExecuted(P, me.pid, "COMPLETED", me.results)
       /\ confirms' = [confirms EXCEPT ![c] =
                         [me EXCEPT !.pc = "notify", !.executionResults = me.results,
                                    !.resp = [Resp(200, "OK", << >>) EXCEPT
                                               !.results = me.results]]]
       /\ locks' = L
       /\ calls' = C
  ELSE LET step   == me.steps[idx]
           action == toLowerCase(step.action)
           key    == buildResourceKey(step.node, step.vmid)
       IN IF action \notin allowedExecutionActions
          THEN ExecutionFailed(c, me, << "Unsupported action", action >>, P, L, C)
          ELSE IF step.node = "" \/ ~step.numeric
          THEN ExecutionFailed(c, me, << "Invalid step definition", idx - 1 >>, P, L, C)
          ELSE IF ~acquireLock(L, key)
          THEN ExecutionFailed(c, me, << "Resource locked", step.node, step.vmid >>, P, L, C)
          ELSE /\ locks' = lockSet(L, key)
               /\ calls' = C \cup { RemoteCall("confirm", c, me.pid, idx - 1, 1, step,
                                               Cardinality(P[me.pid].approvals), "none") }
               /\ confirms' = [confirms EXCEPT ![c] =
                                 [me EXCEPT !.pc = "remote", !.index = idx, !.attempt = 1]]
               /\ proposals' = P

\* Variant: the loop goes on with the next step after a failed one.
StepFailedContinue(c, me, step, message, C) ==
  EnterStep(c, [me EXCEPT !.results =
                   Append(@, StepResult(me.index - 1, step, "fail", message))],
            me.index + 1, proposals,
            releaseLock(locks, buildResourceKey(step.node, step.vmid)), C)

\* catch / finally of the loop body: the fail result is pushed, the lock released,
\* and `Step n failed` is thrown out of the run.
StepFailed(c, me, step, message, C) ==
  LET key == buildResourceKey(step.node, step.vmid)
      me1 == [me EXCEPT !.results =
                 Append(@, StepResult(me.index - 1, step, "fail", message))]
  IN ExecutionFailed(c, me1, << "Step failed", me.index - 1, message >>, proposals,
                     releaseLock(locks, key), C)

----------------------------------------------------------------------------
(* POST /api/assistant/confirm/:id *)

\* process.env.REQUIRE_DUAL_CONTROL === 'true' && record.destructive
dualControlEnabled(record) == requireDualControl /\ record.destructive

\* Variant: the approvals.has(username) test omitted.
neverAlreadyApproved(record, username) == FALSE

\* if (dualControlEnabled) { if (record.approvals.has(username)) ... 409
alreadyApproved(record, username) ==
  dualControlEnabled(record) /\ username \in record.approvals

\* Variant: the first approval executes at once.
noSecondApproval(record) == FALSE

\* if (dualControlEnabled) { ... if (record.approvals.size === 0) ... pending
firstOfTwoApprovals(record) ==
  dualControlEnabled(record) /\ Cardinality(record.approvals) = 0

\* Variant: the COMPLETED test omitted.
neverAlreadyExecuted(record) == FALSE

\* if (record.status === 'COMPLETED') ... 409
alreadyExecuted(record) == record.status = "COMPLETED"

ConfirmAnswer(c, me, http, code) ==
  /\ confirms' = [confirms EXCEPT ![c] = [me EXCEPT !.pc = "done",
                                                    !.resp = Resp(http, code, << >>)]]
  /\ UNCHANGED << STORE, proposals, locks, calls >>

ConfirmAwaitNotify(c, me, http, code, P) ==
  /\ confirms' = [confirms EXCEPT ![c] = [me EXCEPT !.pc = "notify",
                                                    !.resp = Resp(http, code, << >>)]]
  /\ proposals' = P
  /\ UNCHANGED << locks, calls >>

\* From the start of the handler to its first suspension point.
ConfirmStart(c, id, username, decision) ==
  /\ confirms[c].pc = "idle"
  /\ \A d \in ConfirmIds : d < c => confirms[d].pc # "idle"
  /\ UNCHANGED << sanitizerCalls, requireDualControl, issued, now, generating, idempotencyCache, submits >>
  /\ LET me == [IdleConfirm EXCEPT !.pid = id, !.user = username, !.decision = decision]
     IN
     IF id \notin DOMAIN proposals
     THEN ConfirmAnswer(c, me, 404, "PROPOSAL_NOT_FOUND")
     ELSE LET record == proposals[id] IN
       IF alreadyExecuted(record)
       THEN ConfirmAnswer(c, me, 409, "ALREADY_EXECUTED")
       ELSE IF decision = "deny"
       THEN /\ ConfirmAwaitNotify(c, me, 200, "DENIED",
                                  markExecuted(proposals, id, "DENIED", record.results))
            /\ UNCHANGED STORE
       ELSE IF alreadyApproved(record, username)
       THEN ConfirmAnswer(c, me, 409, "ALREADY_APPROVED")
       ELSE IF firstOfTwoApprovals(record)
       THEN /\ ConfirmAwaitNotify(c, me, 200, "PENDING_SECOND_APPROVAL",
                                  saveApproval(proposals, id, username))
            /\ UNCHANGED STORE
       ELSE LET P == saveApproval(proposals, id, username)
                r == rehydrateFromLLM(stringify(record.steps), id, STORE, now)
            IN /\ STORE' = r.store
               /\ IF r.threw
                  THEN ConfirmAwaitNotify(c, me, 500, "REHYDRATION_FAILED", P)
                  ELSE EnterStep(c, [me EXCEPT !.steps = parse(r.text, record.steps)],
                                 1, P, locks, calls)

\* One attempt of executeWithRetry settles: the remote call answers or fails, or
\* the timer of runWithTimeout rejects first.
ConfirmRemote(c, outcome) ==
  /\ confirms[c].pc = "remote"
  /\ UNCHANGED << sanitizerCalls, requireDualControl, issued, now, STORE, generating, idempotencyCache, submits >>
  /\ LET me   == confirms[c]
         step == me.steps[me.index]
         key  == buildResourceKey(step.node, step.vmid)
         cur  == CHOOSE r \in calls : r.by = "confirm" /\ r.id = c
                                      /\ r.index = me.index - 1 /\ r.attempt = me.attempt
         C    == (calls \ {cur}) \cup { settle(cur, outcome) }
     IN IF outcome = "ok"
        THEN EnterStep(c, [me EXCEPT !.results =
                              Append(@, StepResult(me.index - 1, step, "success", "ok"))],
                       me.index + 1, proposals, releaseLock(locks, key), C)
        ELSE IF retryExhausted(me.attempt)
        THEN StepFailed(c, me, step, errorMessage(outcome), C)
        ELSE /\ calls' = C \cup { RemoteCall("confirm", c, me.pid, me.index - 1,
                                             me.attempt + 1, step,
                                             Cardinality(proposals[me.pid].approvals),
                                             "none") }
             /\ confirms' = [confirms EXCEPT ![c].attempt = me.attempt + 1]
             /\ UNCHANGED << proposals, locks >>

\* A request that runWithTimeout gave up on is answered or fails at last; nobody
\* listens any more.
LateAnswer(c, attempt) ==
  /\ \E r \in calls :
        /\ r.by = "confirm" /\ r.id = c /\ r.attempt = attempt
        /\ r.outcome = "timeout" /\ r.inFlight
        /\ calls' = (calls \ {r}) \cup { [r EXCEPT !.inFlight = FALSE] }
  /\ UNCHANGED << sanitizerCalls, requireDualControl, issued, now, STORE, proposals, generating,
                  locks, idempotencyCache, confirms, submits >>

\* Variant: the error of the sink is thrown on to the handler.
notifyAssistantUnsafe(sink) == IF sink = "failed" THEN "rejected" ELSE "resolved"

\* safeNotifyAssistant: try { await notifyAssistantDecision } catch { log, audit }
safeNotifyAssistant(sink) == "resolved"

\* `await safeNotifyAssistant(...)` settles and the handler answers.  Were the
\* promise rejected: inside the handler's try (after the run, or in the catch of
\* the rehydration) the outer catch would store FAILED and notify again;
\* elsewhere the handler would end without an answer.
ConfirmNotify(c, sink) ==
  /\ confirms[c].pc = "notify"
  /\ LET me == confirms[c] IN
       IF safeNotifyAssistant(sink) = "resolved"
       THEN /\ confirms' = [confirms EXCEPT ![c] = [Returned(me) EXCEPT !.notified = sink]]
            /\ UNCHANGED proposals
       ELSE IF me.resp.code \in {"OK", "REHYDRATION_FAILED"}
       THEN /\ proposals' = markExecuted(proposals, me.pid, "FAILED", me.executionResults)
            /\ confirms' = [confirms EXCEPT ![c] =
                  [me EXCEPT !.resp = Resp(500, "EXECUTION_FAILED", << "Notification failed" >>),
                             !.notified = sink]]
       ELSE /\ confirms' = [confirms EXCEPT ![c] =
                  [Returned(me) EXCEPT !.resp = NoResp, !.notified = sink]]
            /\ UNCHANGED proposals
  /\ UNCHANGED << sanitizerCalls, requireDualControl, issued, now, STORE, generating, locks,
                  idempotencyCache, submits, calls >>

----------------------------------------------------------------------------
(* POST /api/proxmox/actions/:action  (createActionHandler / handleAction) *)

\* idempotencyCache.has(idempotencyKey)
isDuplicate(cache, key) == key \in DOMAIN cache

\* Variant: the key is not recorded.
cacheForgets(cache, key, entry) == cache

\* idempotencyCache.set(idempotencyKey, auditEntry)
cacheSet(cache, key, entry) ==
  [k \in DOMAIN cache \cup {key} |-> IF k = key THEN entry ELSE cache[k]]

\* Variant: the dual-control gate of handleAction omitted.
dualControlNeverRequired(action) == FALSE

\* process.env.REQUIRE_DUAL_CONTROL === 'true' && destructiveActions.has(action)
dualControlRequired(action) == requireDualControl /\ action \in destructiveActions

\* Validation and the idempotency check, up to `await getVmPool(node, vmid)`.
SubmitStart(s, key, action, node, vmid) ==
  /\ submits[s].pc = "idle"
  /\ \A d \in SubmitIds : d < s => submits[d].pc # "idle"
  /\ LET me == [IdleSubmit EXCEPT !.key = key, !.action = action, !.node = node,
                                  !.vmid = vmid]
     IN IF isDuplicate(idempotencyCache, key)
        THEN submits' = [submits EXCEPT ![s] =
                           [me EXCEPT !.pc = "done",
                                      !.resp = Resp(409, "DUPLICATE_REQUEST", << >>)]]
        ELSE submits' = [submits EXCEPT ![s] = [me EXCEPT !.pc = "pool"]]
  /\ UNCHANGED << sanitizerCalls, requireDualControl, issued, now, STORE, proposals, generating, locks,
                  idempotencyCache, confirms, calls >>

\* getVmPool settles; pool check, lock, dual-control gate, then the remote call.
SubmitPool(s, poolAllowed) ==
  /\ submits[s].pc = "pool"
  /\ UNCHANGED << sanitizerCalls, requireDualControl, issued, now, STORE, proposals, generating,
                  idempotencyCache, confirms >>
  /\ LET me      == submits[s]
         lockKey == buildResourceKey(me.node, me.vmid)
     IN IF ~poolAllowed
        THEN /\ submits' = [submits EXCEPT ![s] =
                              [me EXCEPT !.pc = "done",
                                         !.resp = Resp(403, "POOL_FORBIDDEN", << >>)]]
             /\ UNCHANGED << locks, calls >>
        ELSE IF ~acquireLock(locks, lockKey)
        THEN /\ submits' = [submits EXCEPT ![s] =
                              [me EXCEPT !.pc = "done",
                                         !.resp = Resp(423, "RESOURCE_LOCKED", << >>)]]
             /\ UNCHANGED << locks, calls >>
        ELSE IF dualControlRequired(me.action)
        THEN /\ locks' = releaseLock(lockSet(locks, lockKey), lockKey)
             /\ submits' = [submits EXCEPT ![s] =
                              [me EXCEPT !.pc = "notify",
                                         !.resp = Resp(200, "PENDING_APPROVAL", << >>)]]
             /\ UNCHANGED calls
        ELSE /\ locks' = lockSet(locks, lockKey)
             /\ calls' = calls \cup { RemoteCall("submit", s, 0, 0, 1,
                                        Step(me.action, me.node, me.vmid), 0, me.key) }
             /\ submits' = [submits EXCEPT ![s] = [me EXCEPT !.pc = "remote",
                                                             !.holds = TRUE]]

\* `await performVmAction(...)` settles: try or catch branch up to safeNotifyVm.
SubmitRemote(s, outcome) ==
  /\ submits[s].pc = "remote"
  /\ outcome # "timeout"
  /\ LET me  == submits[s]
         cur == CHOOSE r \in calls : r.by = "submit" /\ r.id = s
     IN /\ calls' = (calls \ {cur}) \cup { settle(cur, outcome) }
        /\ submits' = [submits EXCEPT ![s] =
              [me EXCEPT !.pc = "notify",
                         !.resp = IF outcome = "ok"
                                    THEN Resp(200, "OK", << >>)
                                    ELSE Resp(502, "PROXMOX_ACTION_FAILED", << outcome >>)]]
  /\ UNCHANGED << sanitizerCalls, requireDualControl, issued, now, STORE, proposals, generating, locks,
                  idempotencyCache, confirms >>

\* Variant: the error of the sink is thrown on to the handler.
notifyVmUnsafe(sink) == IF sink = "failed" THEN "rejected" ELSE "resolved"

\* safeNotifyVm: try { await notifyVmAction } catch { log, audit }
safeNotifyVm(sink) == "resolved"

\* safeNotifyVm settles: the key is recorded, the handler answers, and (try/finally
\* path only) the lock is released.  Were the promise rejected: in the try block
\* the catch block would take over and notify again; in the catch block the
\* finally would release the lock and the handler end without answer or cache
\* entry, as it would on the dual-control path.
SubmitNotify(s, sink) ==
  /\ submits[s].pc = "notify"
  /\ LET me == submits[s]
         released == IF me.holds
                       THEN releaseLock(locks, buildResourceKey(me.node, me.vmid))
                       ELSE locks
     IN IF safeNotifyVm(sink) = "resolved"
        THEN /\ idempotencyCache' = cacheSet(idempotencyCache, me.key, me.resp.code)
             /\ locks' = released
             /\ submits' = [submits EXCEPT ![s] =
                              [me EXCEPT !.pc = "done", !.holds = FALSE, !.notified = sink]]
        ELSE IF me.resp.code = "OK"
        THEN /\ submits' = [submits EXCEPT ![s] =
                   [me EXCEPT !.resp = Resp(502, "PROXMOX_ACTION_FAILED",
                                            << "Notification failed" >>),
                              !.notified = sink]]
             /\ UNCHANGED << idempotencyCache, locks >>
        ELSE /\ submits' = [submits EXCEPT ![s] =
                   [me EXCEPT !.pc = "done", !.holds = FALSE, !.resp = NoResp,
                              !.notified = sink]]
             /\ locks' = released
             /\ UNCHANGED idempotencyCache
  /\ UNCHANGED << sanitizerCalls, requireDualControl, issued, now, STORE, proposals, generating, confirms, calls >>

----------------------------------------------------------------------------
(* sanitizeForLLM and rehydrateFromLLM called directly *)

\* The record of proposalId is in the store and its deadline has not passed.
Live(store, proposalId, t) ==
  proposalId \in DOMAIN store /\ store[proposalId].expiresAt > t

Called(op, proposalId, input, threw, output, store) ==
  [op |-> op, proposalId |-> proposalId, input |-> input,
   live |-> Live(STORE, proposalId, now), threw |-> threw, output |-> output,
   stored |-> proposalId \in DOMAIN store]

SanitizeCall(x, proposalId) ==
  /\ Len(sanitizerCalls) < MaxCalls
  /\ LET r == sanitizeForLLM(x, proposalId, STORE, now)
     IN /\ STORE' = r.store
        /\ sanitizerCalls' = Append(sanitizerCalls,
             Called("sanitize", proposalId, x, FALSE, r.text, r.store))
  /\ UNCHANGED << requireDualControl, issued, now, proposals, generating, locks,
                  idempotencyCache, confirms, submits, calls >>

RehydrateCall(y, proposalId) ==
  /\ Len(sanitizerCalls) < MaxCalls
  /\ LET r == rehydrateFromLLM(y, proposalId, STORE, now)
     IN /\ STORE' = r.store
        /\ sanitizerCalls' = Append(sanitizerCalls,
             Called("rehydrate", proposalId, y, r.threw, r.text, r.store))
  /\ UNCHANGED << requireDualControl, issued, now, proposals, generating, locks,
                  idempotencyCache, confirms, submits, calls >>

\* The generator's answer echoes the text that call n, a sanitize, returned.
RehydrateSanitized(n, proposalId) ==
  /\ n \in DOMAIN sanitizerCalls
  /\ sanitizerCalls[n].op = "sanitize"
  /\ RehydrateCall(sanitizerCalls[n].output, proposalId)

----------------------------------------------------------------------------
(* Specification *)

Proposers == {"alice"}
Decisions == {"approve", "deny"}

\* Handlers started so far.
Started ==
  Cardinality({ c \in ConfirmIds : confirms[c].pc # "idle" })
    + Cardinality({ s \in SubmitIds : submits[s].pc # "idle" })

ClockActions ==
  \/ Tick
  \/ Sweep

ProposeActions ==
  \/ \E id \in ProposalIds, u \in Proposers, req \in Requests : ProposeStart(id, u, req)
  \/ \E id \in ProposalIds, answer \in Answers : ProposeValid(id, answer)
  \/ \E id \in ProposalIds, answer \in Answers : ProposeReject(id, answer)

ConfirmBegin ==
  \E c \in ConfirmIds, id \in ProposalIds, u \in Users, d \in Decisions :
     ConfirmStart(c, id, u, d)

ConfirmProgress ==
  \/ \E c \in ConfirmIds, o \in Outcomes : ConfirmRemote(c, o)
  \/ \E c \in ConfirmIds : ConfirmNotify(c, "sent")
  \/ \E c \in ConfirmIds, a \in 1..MAX_ATTEMPTS : LateAnswer(c, a)

SubmitBegin ==
  \E s \in SubmitIds, k \in Tokens, a \in SubmitActions, t \in SubmitTargets :
     SubmitStart(s, k, a, t[1], t[2])

SubmitProgress ==
  \/ \E s \in SubmitIds, ok \in BOOLEAN : SubmitPool(s, ok)
  \/ \E s \in SubmitIds, o \in Outcomes : SubmitRemote(s, o)
  \/ \E s \in SubmitIds : SubmitNotify(s, "sent")

\* Proposals and their confirmation.
NextConfirm ==
  \/ ClockActions
  \/ ProposeActions
  \/ ConfirmBegin
  \/ ConfirmProgress

SpecConfirm == Init /\ [][NextConfirm]_vars

\* Direct actions alone.
NextSubmit ==
  \/ SubmitBegin
  \/ SubmitProgress

SpecSubmit == Init /\ [][NextSubmit]_vars

\* Direct actions under the scheduling the event loop gives: a handler whose
\* awaited promise has settled is resumed, and getVmPool and the notification
\* settle.  Nothing makes the remote API answer performVmAction, and
\* handleAction sets no timer, so SubmitRemote has no fairness condition.
SubmitFairness ==
  /\ \A s \in SubmitIds : WF_vars(\E ok \in BOOLEAN : SubmitPool(s, ok))
  /\ \A s \in SubmitIds : WF_vars(SubmitNotify(s, "sent"))

SpecSubmitFair == Init /\ [][NextSubmit]_vars /\ SubmitFairness

\* Propose requests against the clock.  The timers of the process fire, so the
\* clock and the periodic sweep are fair; generateProposal awaits fetch with no
\* timer and no abort signal of its own, so nothing obliges ProposeValid or
\* ProposeReject, which need the generator's answer, to happen.
NextPropose ==
  \/ ClockActions
  \/ ProposeActions

ProposeFairness == WF_vars(Tick) /\ WF_vars(Sweep)

SpecProposeFair == Init /\ [][NextPropose]_vars /\ ProposeFairness

\* The sanitizer alone, against the clock.
NextSanitize ==
  \/ ClockActions
  \/ \E x \in Texts, p \in RecordIds : SanitizeCall(x, p)
  \/ \E y \in Outputs, p \in RecordIds : RehydrateCall(y, p)
  \/ \E n \in 1..MaxCalls, p \in RecordIds : RehydrateSanitized(n, p)

SpecSanitize == Init /\ [][NextSanitize]_vars

\* Two stored proposals whose step lists meet on nodeA/100, and their confirms.
TwoPlans ==
  << << Step("stop", "nodeA", 100), Step("start", "nodeB", 101),
        Step("start", "nodeA", 100) >>,
     << Step("reboot", "nodeA", 100) >> >>

\* The two propose requests behind them: what was asked, what came back, and the
\* redaction store after each call of sanitizeForLLM.
TwoRequest == [prompt |-> << <<"restart">>, <<"vm">> >>, context |-> << <<"nodeA">> >>]

TwoAnswers ==
  [id \in 1..Len(TwoPlans) |->
     [kind |-> "object", conforms |-> TRUE, steps |-> TwoPlans[id]]]

FirstPrompt   == sanitizeForLLM(TwoRequest.prompt, 1, << >>, 0)
FirstContext  == sanitizeForLLM(TwoRequest.context, 1, FirstPrompt.store, 0)
SecondPrompt  == sanitizeForLLM(TwoRequest.prompt, 2, FirstContext.store, 0)
SecondContext == sanitizeForLLM(TwoRequest.context, 2, SecondPrompt.store, 0)

\* The state after two propose requests of alice were answered with TwoPlans.
InitTwoProposals ==
  /\ requireDualControl \in BOOLEAN
  /\ issued = Len(TwoPlans)
  /\ now = 0
  /\ STORE = SecondContext.store
  /\ proposals =
       createProposal(
         createProposal(<< >>, 1, TwoAnswers[1].steps, "alice",
                        isProposalDestructive(TwoAnswers[1].steps)),
         2, TwoAnswers[2].steps, "alice", isProposalDestructive(TwoAnswers[2].steps))
  /\ generating = [id \in 1..Len(TwoPlans) |->
                     [pc |-> "done", user |-> "alice",
                      sent |-> FirstContext.text \o FirstPrompt.text,
                      answer |-> TwoAnswers[id],
                      resp |-> [http |-> 200, code |-> "OK", message |-> << >>]]]
  /\ locks = {}
  /\ idempotencyCache = << >>
  /\ confirms = [c \in ConfirmIds |-> IdleConfirm]
  /\ submits = [s \in SubmitIds |-> IdleSubmit]
  /\ calls = {}
  /\ sanitizerCalls = << >>

\* Their confirms, with every remote call answered within the step timeout.
NextTwoProposals ==
  \/ \E c \in ConfirmIds, id \in 1..Len(TwoPlans), u \in Users, d \in Decisions :
        ConfirmStart(c, id, u, d)
  \/ \E c \in ConfirmIds, o \in Outcomes \ {"timeout"} : ConfirmRemote(c, o)
  \/ \E c \in ConfirmIds : ConfirmNotify(c, "sent")

SpecTwoProposals == InitTwoProposals /\ [][NextTwoProposals]_vars

\* Confirms of the two stored proposals and direct actions, at most MaxOps
\* handlers, with a notification sink that may fail.
NextNotify ==
  \/ ( Started < MaxOps /\
       \E c \in ConfirmIds, id \in 1..Len(TwoPlans), u \in Users, d \in Decisions :
          ConfirmStart(c, id, u, d) )
  \/ \E c \in ConfirmIds, o \in Outcomes \ {"timeout"} : ConfirmRemote(c, o)
  \/ \E c \in ConfirmIds, sink \in NotifyOutcomes : ConfirmNotify(c, sink)
  \/ (Started < MaxOps /\ SubmitBegin)
  \/ \E s \in SubmitIds, ok \in BOOLEAN : SubmitPool(s, ok)
  \/ \E s \in SubmitIds, o \in Outcomes : SubmitRemote(s, o)
  \/ \E s \in SubmitIds, sink \in NotifyOutcomes : SubmitNotify(s, sink)

SpecNotify == InitTwoProposals /\ [][NextNotify]_vars

\* Everything together, at most MaxOps handlers.
Next ==
  \/ ClockActions
  \/ ProposeActions
  \/ (Started < MaxOps /\ ConfirmBegin)
  \/ ConfirmProgress
  \/ (Started < MaxOps /\ SubmitBegin)
  \/ SubmitProgress

Spec == Init /\ [][Next]_vars

----------------------------------------------------------------------------
(* Properties *)

Terminal == {"COMPLETED", "FAILED", "DENIED"}
Failures == {"E1", "timeout"}

ConfirmCalls == { r \in calls : r.by = "confirm" }
SubmitCalls  == { r \in calls : r.by = "submit" }

\* Remote attempts of confirm request c for the step with (0-based) index i.
Attempts(c, i) == { r \in ConfirmCalls : r.id = c /\ r.index = i }

\* C1: once the stored status of a proposal is COMPLETED, FAILED or DENIED, no
\* step of any confirm handler changes it.
C1_TerminalStatusStable ==
  [][\A p \in DOMAIN proposals :
        proposals[p].status \in Terminal
          => proposals'[p].status = proposals[p].status]_vars

\* C2: under dual control, every remote call of a destructive proposal is issued
\* while its approvals set holds at least two distinct approvers.
C2_DualControlGate ==
  \A r \in ConfirmCalls :
     (requireDualControl /\ proposals[r.pid].destructive) => r.approvers >= 2

C2_Witness ==
  \E r \in ConfirmCalls :
     /\ requireDualControl
     /\ proposals[r.pid].destructive
     /\ Cardinality(proposals[r.pid].approvals) = 2

\* C3: when step k of a run fails on both attempts, the proposal is stored FAILED
\* with the success results of steps 0..k-1 followed by one fail result for k.
C3_FailedRunKeepsResults ==
  [][\A c \in ConfirmIds :
        ( /\ confirms[c].pc = "remote"
          /\ confirms'[c].pc = "notify"
          /\ confirms'[c].resp.code = "EXECUTION_FAILED"
          /\ confirms'[c].resp.message[1] = "Step failed" )
        => LET stored == proposals'[confirms[c].pid]
               k      == confirms[c].index
           IN /\ stored.status = "FAILED"
              /\ Len(stored.results) = k
              /\ \A i \in 1..k :
                    /\ stored.results[i].index = i - 1
                    /\ stored.results[i].status = IF i < k THEN "success" ELSE "fail"]_vars

\* C4: confirm issues no remote call whose target still carries a placeholder.
C4_NoCallWithPlaceholder ==
  \A r \in ConfirmCalls : ~isAlreadyPlaceholder(r.node)

\* C5: requests with the same idempotency key issue at most one remote call.
C5_OneCallPerKey ==
  \A r, q \in SubmitCalls : r.token = q.token => r.id = q.id

\* Operations that are between a successful acquire of `key` and its release.
Holders(key) ==
  { << "confirm", c >> : c \in { d \in ConfirmIds :
        /\ confirms[d].pc = "remote"
        /\ buildResourceKey(confirms[d].steps[confirms[d].index].node,
                            confirms[d].steps[confirms[d].index].vmid) = key } }
  \cup
  { << "submit", s >> : s \in { d \in SubmitIds :
        /\ submits[d].holds
        /\ buildResourceKey(submits[d].node, submits[d].vmid) = key } }

KeysInUse ==
  { buildResourceKey(confirms[c].steps[confirms[c].index].node,
                     confirms[c].steps[confirms[c].index].vmid) :
      c \in { d \in ConfirmIds : confirms[d].pc = "remote" } }
  \cup { buildResourceKey(submits[s].node, submits[s].vmid) :
           s \in { d \in SubmitIds : submits[d].holds } }

\* C6: at most one operation is between acquire and release of a key, and the key
\* is then in the lock table, so every other acquire of it fails.
C6_MutualExclusion ==
  \A key \in KeysInUse : Cardinality(Holders(key)) <= 1 /\ key \in locks

C6_Witness ==
  \E s \in SubmitIds :
     /\ submits[s].resp.code = "RESOURCE_LOCKED"
     /\ Holders(buildResourceKey(submits[s].node, submits[s].vmid)) # {}

\* C7: every held lock belongs to an operation still in flight; a returned
\* operation holds none, and with nothing in flight the table is empty.
C7_NoLeakedLock ==
  \A key \in locks : Holders(key) # {}

C7_Witness ==
  /\ locks = {}
  /\ \E c \in ConfirmIds :
        /\ confirms[c].pc = "done"
        /\ confirms[c].resp.code = "EXECUTION_FAILED"
        /\ confirms[c].resp.message[1] = "Step failed"
  /\ \E s \in SubmitIds :
        /\ submits[s].pc = "done"
        /\ submits[s].resp.code = "PENDING_APPROVAL"

\* C8: at most two attempts per step, the second only after a failed first; a
\* step succeeds iff an attempt does, and the error of a failed step is the
\* second attempt's.
C8_BoundedRetry ==
  /\ \A r \in ConfirmCalls :
        /\ r.attempt \in 1..2
        /\ r.attempt = 2 =>
              \E q \in Attempts(r.id, r.index) : q.attempt = 1 /\ q.outcome \in Failures
  /\ \A c \in ConfirmIds : \A j \in DOMAIN confirms[c].results :
        LET res == confirms[c].results[j]
            as  == Attempts(c, res.index)
        IN /\ res.status = "success" <=> \E q \in as : q.outcome = "ok"
           /\ res.status = "success" =>
                 Cardinality(as) =
                    IF \E q \in as : q.attempt = 1 /\ q.outcome = "ok" THEN 1 ELSE 2
           /\ res.status = "fail" =>
                 /\ Cardinality(as) = 2
                 /\ \E q \in as : q.attempt = 2 /\ res.detail = errorMessage(q.outcome)
                 /\ confirms[c].resp.message = << "Step failed", res.index, res.detail >>

C8_Witness ==
  \E c \in ConfirmIds : \E j \in DOMAIN confirms[c].results :
     /\ confirms[c].results[j].status = "fail"
     /\ confirms[c].results[j].detail = "Step timed out"
     /\ \E q \in Attempts(c, confirms[c].results[j].index) :
           q.attempt = 1 /\ q.outcome = "E1"

\* C9: a remote call (and the lock acquire it follows) of a step happens only
\* when every earlier step of that run has succeeded.
C9_FailFast ==
  \A q \in ConfirmCalls : \A i \in 0..(q.index - 1) :
     \E a \in Attempts(q.id, i) : a.outcome = "ok"

C9_Witness ==
  \E c \in ConfirmIds :
     /\ confirms[c].pc = "notify"
     /\ Len(confirms[c].steps) = 2
     /\ confirms[c].resp.code = "EXECUTION_FAILED"
     /\ confirms[c].resp.message[1] = "Step failed"
     /\ confirms[c].resp.message[2] = 0
     /\ Attempts(c, 1) = {}

\* A confirm handler starts, with decision approve, for an approver who is already
\* in the approvals of the proposal.
RepeatApproval(c) ==
  /\ confirms[c].pc = "idle"
  /\ confirms'[c].pc # "idle"
  /\ confirms'[c].decision = "approve"
  /\ confirms'[c].pid \in DOMAIN proposals
  /\ confirms'[c].user \in proposals[confirms'[c].pid].approvals

Rejected(c) ==
  /\ confirms'[c].resp.code = "ALREADY_APPROVED"
  /\ proposals' = proposals
  /\ calls' = calls

ConfirmBegins(c) ==
  /\ confirms[c].pc = "idle"
  /\ confirms'[c].pc # "idle"
  /\ confirms'[c].pid \in DOMAIN proposals

\* C11: under dual control, the first approve of a destructive PENDING proposal
\* without approvers adds the approver, stores the status
\* PENDING_SECOND_APPROVAL and issues no remote call.
C11_FirstApprovalStoresPending ==
  [][\A c \in ConfirmIds :
        ( /\ ConfirmBegins(c)
          /\ confirms'[c].decision = "approve"
          /\ requireDualControl
          /\ proposals[confirms'[c].pid].destructive
          /\ proposals[confirms'[c].pid].status = "PENDING"
          /\ proposals[confirms'[c].pid].approvals = {} )
        => /\ proposals'[confirms'[c].pid].approvals = { confirms'[c].user }
           /\ proposals'[confirms'[c].pid].status = "PENDING_SECOND_APPROVAL"
           /\ calls' = calls]_vars

\* C12: a confirm (approve or deny) that starts on a COMPLETED proposal is
\* answered ALREADY_EXECUTED at once and changes neither the proposal, the lock
\* table nor the remote calls.
C12_CompletedIsRejected ==
  [][\A c \in ConfirmIds :
        ( ConfirmBegins(c) /\ proposals[confirms'[c].pid].status = "COMPLETED" )
        => /\ confirms'[c].pc = "done"
           /\ confirms'[c].resp.code = "ALREADY_EXECUTED"
           /\ proposals' = proposals
           /\ locks' = locks
           /\ calls' = calls]_vars

C12_Witness ==
  \E c \in ConfirmIds :
     /\ confirms[c].resp.code = "ALREADY_EXECUTED"
     /\ confirms[c].decision = "approve"
     /\ proposals[confirms[c].pid].status = "COMPLETED"
     /\ \A r \in ConfirmCalls : r.id # c

\* C13: a confirm whose rehydration throws issues no remote call and stores the
\* proposal as FAILED with the results it had.
C13_RehydrationFailureMarksFailed ==
  [][\A c \in ConfirmIds :
        ( ConfirmBegins(c) /\ confirms'[c].resp.code = "REHYDRATION_FAILED" )
        => /\ calls' = calls
           /\ proposals'[confirms'[c].pid].status = "FAILED"
           /\ proposals'[confirms'[c].pid].results
                 = proposals[confirms'[c].pid].results]_vars

\* Call n of the sanitizer is a rehydrate of exactly the text that call n - 1, a
\* sanitize under the same proposal id, returned, and the record has not expired.
RoundTrip(n) ==
  /\ n > 1
  /\ sanitizerCalls[n].op = "rehydrate"
  /\ sanitizerCalls[n - 1].op = "sanitize"
  /\ sanitizerCalls[n].proposalId = sanitizerCalls[n - 1].proposalId
  /\ sanitizerCalls[n].input = sanitizerCalls[n - 1].output
  /\ sanitizerCalls[n].live

\* C14: rehydrate(sanitize(x, p).text, p), called before the record expires,
\* returns exactly x.
C14_RehydrateInvertsSanitize ==
  \A n \in DOMAIN sanitizerCalls :
     RoundTrip(n) => /\ ~sanitizerCalls[n].threw
                     /\ sanitizerCalls[n].output = sanitizerCalls[n - 1].input

\* C15: a rehydrate under a proposal id without live record (never sanitized,
\* expired or consumed) returns its input unchanged, does not throw and leaves no
\* record of that id in the store.
C15_NoRecordNoChange ==
  \A n \in DOMAIN sanitizerCalls :
     (sanitizerCalls[n].op = "rehydrate" /\ ~sanitizerCalls[n].live)
     => /\ sanitizerCalls[n].output = sanitizerCalls[n].input
        /\ ~sanitizerCalls[n].threw
        /\ ~sanitizerCalls[n].stored

\* The sanitized text of a redacted input comes back after the record expired.
C15_Witness ==
  /\ Len(sanitizerCalls) = 2
  /\ sanitizerCalls[1].op = "sanitize"
  /\ sanitizerCalls[1].output # sanitizerCalls[1].input
  /\ sanitizerCalls[2].op = "rehydrate"
  /\ sanitizerCalls[2].input = sanitizerCalls[1].output
  /\ ~sanitizerCalls[2].live
  /\ sanitizerCalls[2].output = sanitizerCalls[2].input

\* C16: a rehydrate on a live record removes the record, whether it returns or
\* throws, and a rehydrate under the same id right after it substitutes nothing.
C16_RecordIsSingleUse ==
  \A n \in DOMAIN sanitizerCalls :
     (sanitizerCalls[n].op = "rehydrate" /\ sanitizerCalls[n].live)
     => /\ ~sanitizerCalls[n].stored
        /\ \A m \in DOMAIN sanitizerCalls :
              ( /\ m = n + 1
                /\ sanitizerCalls[m].op = "rehydrate"
                /\ sanitizerCalls[m].proposalId = sanitizerCalls[n].proposalId )
              => /\ ~sanitizerCalls[m].live
                 /\ sanitizerCalls[m].output = sanitizerCalls[m].input

\* A rehydrate that throws is followed by a rehydrate of a text with a placeholder
\* that the consumed record had a mapping for.
C16_Witness ==
  /\ Len(sanitizerCalls) = 3
  /\ sanitizerCalls[1].op = "sanitize"
  /\ sanitizerCalls[2].op = "rehydrate"
  /\ sanitizerCalls[2].live
  /\ sanitizerCalls[2].threw
  /\ sanitizerCalls[3].op = "rehydrate"
  /\ sanitizerCalls[3].input = sanitizerCalls[1].output
  /\ sanitizerCalls[3].input # sanitizerCalls[1].input
  /\ sanitizerCalls[3].output = sanitizerCalls[3].input

\* Handlers of direct actions that ran to completion with idempotency key t:
\* they answered after the remote call or with PENDING_APPROVAL.
Completed(t) ==
  { s \in SubmitIds :
      /\ submits[s].pc = "done"
      /\ submits[s].key = t
      /\ submits[s].resp.code \in {"OK", "PROXMOX_ACTION_FAILED", "PENDING_APPROVAL"} }

\* C17: a direct action that starts with an idempotency key some completed
\* direct action carried is answered DUPLICATE_REQUEST at once, whatever its
\* action and target, and changes neither the lock table nor the remote calls.
C17_CompletedKeyIsDuplicate ==
  [][\A s \in SubmitIds :
        ( /\ submits[s].pc = "idle"
          /\ submits'[s].pc # "idle"
          /\ Completed(submits'[s].key) # {} )
        => /\ submits'[s].pc = "done"
           /\ submits'[s].resp.code = "DUPLICATE_REQUEST"
           /\ locks' = locks
           /\ calls' = calls]_vars

C17_Witness ==
  \E s, d \in SubmitIds :
     /\ d \in Completed(submits[s].key)
     /\ submits[d].resp.code = "PROXMOX_ACTION_FAILED"
     /\ submits[s].resp.code = "DUPLICATE_REQUEST"
     /\ submits[s].action # submits[d].action
     /\ submits[s].node # submits[d].node

\* C18: a proposal record exists only for a propose request whose generator
\* answer parsed and passed validate; a request whose answer fails validate is
\* answered 502 with the schema validation message and has no record; so every
\* remote call of a confirm runs a step of a validated answer.
C18_OnlyValidatedIsStored ==
  /\ \A id \in DOMAIN proposals :
        /\ id \in DOMAIN generating
        /\ generating[id].pc = "done"
        /\ generating[id].answer.kind = "object"
        /\ generating[id].answer.conforms
        /\ proposals[id].steps = generating[id].answer.steps
  /\ \A id \in DOMAIN generating :
        ( /\ generating[id].pc = "done"
          /\ generating[id].answer.kind = "object"
          /\ ~generating[id].answer.conforms )
        => /\ generating[id].resp.code = "PROPOSAL_GENERATION_FAILED"
           /\ generating[id].resp.message
                 = << "Generated proposal failed schema validation" >>
           /\ id \notin DOMAIN proposals
  /\ \A r \in ConfirmCalls :
        /\ generating[r.pid].answer.conforms
        /\ r.index + 1 \in DOMAIN generating[r.pid].answer.steps

\* A non-conforming answer was rejected, and a confirm for its id found nothing.
C18_Witness ==
  \E id \in DOMAIN generating : \E c \in ConfirmIds :
     /\ generating[id].pc = "done"
     /\ generating[id].answer.kind = "object"
     /\ ~generating[id].answer.conforms
     /\ confirms[c].pid = id
     /\ confirms[c].resp.code = "PROPOSAL_NOT_FOUND"

\* Remote calls of confirm request c on the resource `key`.
CallsOn(c, key) ==
  { r \in ConfirmCalls : r.id = c /\ buildResourceKey(r.node, r.vmid) = key }

\* Confirm requests start in the order of their numbers, and the call of the
\* first step is issued as the handler starts.  So when run c is in the call of a
\* later step on `key`, holds the lock, and a run d that started after c has a
\* call on `key` too, the step of d ran after the first step of c and before the
\* one c is in.
RanBetween(c, d, key) ==
  /\ c < d
  /\ confirms[c].pid # confirms[d].pid
  /\ confirms[c].pc = "remote"
  /\ confirms[c].index > 1
  /\ buildResourceKey(confirms[c].steps[confirms[c].index].node,
                      confirms[c].steps[confirms[c].index].vmid) = key
  /\ \E r \in CallsOn(c, key) : r.index = 0
  /\ CallsOn(d, key) # {}

\* C19: no step of one proposal runs on a resource between two steps of another
\* proposal's run on that resource.
C19_NoStepInBetween ==
  \A c, d \in ConfirmIds : \A r \in ConfirmCalls :
     ~RanBetween(c, d, buildResourceKey(r.node, r.vmid))

\* C20: when a run has issued the remote call of a step, every attempt of its
\* earlier steps has finished, and the lock of no earlier step is left behind.
C20_StrictlySequential ==
  \A q \in ConfirmCalls : \A i \in 0..(q.index - 1) :
     /\ \A r \in Attempts(q.id, i) : ~r.inFlight
     /\ \A r \in Attempts(q.id, i) :
           buildResourceKey(r.node, r.vmid) \in locks
             => Holders(buildResourceKey(r.node, r.vmid)) # {}

\* C21: the stored results of a proposal are never longer than its steps,
\* whatever confirm requests have run or are running on it.
C21_ResultsNoLongerThanSteps ==
  \A p \in DOMAIN proposals : Len(proposals[p].results) <= Len(proposals[p].steps)

\* Two confirm requests have both issued remote calls for one proposal and one of
\* them has completed it: the stored results are as long as the steps.
C21_Witness ==
  \E c, d \in ConfirmIds :
     /\ c # d
     /\ confirms[c].pid = confirms[d].pid
     /\ confirms[c].pid \in DOMAIN proposals
     /\ Attempts(c, 0) # {}
     /\ Attempts(d, 0) # {}
     /\ confirms[d].resp.code = "OK"
     /\ proposals[confirms[d].pid].status = "COMPLETED"
     /\ proposals[confirms[d].pid].results # << >>
     /\ Len(proposals[confirms[d].pid].results) = Len(proposals[confirms[d].pid].steps)

\* C22: when a run fails at step k, the response of the confirm carries the
\* results gathered so far: the successes of steps 0..k-1 and the fail result of k.
C22_FailureResponseCarriesResults ==
  [][\A c \in ConfirmIds :
        ( /\ confirms[c].pc = "remote"
          /\ confirms'[c].pc = "notify"
          /\ confirms'[c].resp.code = "EXECUTION_FAILED"
          /\ confirms'[c].resp.message[1] = "Step failed" )
        => LET sent == confirms'[c].resp.results
               k    == confirms[c].index
           IN /\ Len(sent) = k
              /\ \A i \in 1..(k - 1) : sent[i].status = "success"
              /\ sent[k].status = "fail"]_vars

\* Does the run of lexemes `value` occur in the text?
OccursIn(value, text) ==
  \E i \in DOMAIN text : \E j \in 1..Len(text[i]) :
     /\ j + Len(value) - 1 <= Len(text[i])
     /\ SubSeq(text[i], j, j + Len(value) - 1) = value

\* C23: no value that the redaction record of a proposal id maps a placeholder
\* to occurs in clear in the text propose sent to the generator under that id.
C23_NoMappedValueSent ==
  \A id \in DOMAIN generating \cap DOMAIN STORE :
     \A j \in DOMAIN STORE[id].mappings :
        ~OccursIn(STORE[id].mappings[j][2], generating[id].sent)

\* C24: a confirm with decision deny on a PENDING proposal stores it as DENIED,
\* leaves its approvals as they were, takes no lock and issues no remote call.
C24_DenyOnPending ==
  [][\A c \in ConfirmIds :
        ( /\ ConfirmBegins(c)
          /\ confirms'[c].decision = "deny"
          /\ confirms'[c].pid \in DOMAIN proposals
          /\ proposals[confirms'[c].pid].status = "PENDING" )
        => /\ proposals'[confirms'[c].pid].status = "DENIED"
           /\ proposals'[confirms'[c].pid].approvals = proposals[confirms'[c].pid].approvals
           /\ locks' = locks
           /\ calls' = calls]_vars

\* The first confirm of a proposal was a deny: the proposal is DENIED, nobody
\* approved, no lock is held and no call was made.
C24_Witness ==
  \E c \in ConfirmIds :
     /\ \A d \in ConfirmIds \ {c} : confirms[d].pc = "idle"
     /\ confirms[c].decision = "deny"
     /\ confirms[c].resp.code = "DENIED"
     /\ proposals[confirms[c].pid].status = "DENIED"
     /\ proposals[confirms[c].pid].approvals = {}
     /\ locks = {}
     /\ calls = {}

\* C25: a confirm that starts on a proposal whose stored status is DENIED issues
\* no remote call.
C25_NoCallAfterDenied ==
  [][\A c \in ConfirmIds :
        ( /\ ConfirmBegins(c)
          /\ proposals[confirms'[c].pid].status = "DENIED" )
        => calls' = calls]_vars

\* C26: no step of a proposal has remote calls issued on behalf of two
\* different confirm requests.
C26_OneConfirmExecutes ==
  \A r, q \in ConfirmCalls :
     (r.pid = q.pid /\ r.index = q.index) => r.id = q.id

\* C27: of the remote calls the step executor has issued for one (node, vmid),
\* at most one is in flight.
C27_OneCallInFlight ==
  \A r, q \in ConfirmCalls :
     ( /\ r.inFlight /\ q.inFlight
       /\ buildResourceKey(r.node, r.vmid) = buildResourceKey(q.node, q.vmid) )
     => r = q

\* Keys a direct action can lock.
SubmitKeys == { buildResourceKey(t[1], t[2]) : t \in SubmitTargets }

\* C28: every lock that is held is released later, whether or not the remote
\* call it guards returns.
C28_LockEventuallyReleased ==
  \A key \in SubmitKeys : (key \in locks) ~> (key \notin locks)

\* (index, attempt) of the remote calls issued so far for confirm request c.
Issued(c) == { << r.index, r.attempt >> : r \in { q \in ConfirmCalls : q.id = c } }

\* In this step the run of confirm request c comes to the acquire of step idx
\* (1-based): the handler starts and executes, or the call of step idx - 1 has
\* succeeded.
ComesTo(c, idx) ==
  \/ /\ idx = 1
     /\ confirms[c].pc = "idle"
     /\ confirms'[c].pc # "idle"
     /\ confirms'[c].steps # << >>
  \/ /\ idx > 1
     /\ confirms[c].pc = "remote"
     /\ confirms[c].index = idx - 1
     /\ idx <= Len(confirms[c].steps)
     /\ Len(confirms'[c].results) = Len(confirms[c].results) + 1
     /\ confirms'[c].results[Len(confirms'[c].results)].status = "success"

\* The lock table that acquire sees: the lock of the step before is released.
SeenLocks(c, idx) ==
  IF idx = 1 THEN locks
  ELSE releaseLock(locks, buildResourceKey(confirms[c].steps[idx - 1].node,
                                           confirms[c].steps[idx - 1].vmid))

\* C29: a run that comes to a valid step whose lock is held fails in that very
\* step with `Resource ... is locked`, takes no lock and issues no remote call,
\* and a run that has failed so issues no remote call afterwards.
C29_LockedFailsAtOnce ==
  [][\A c \in ConfirmIds :
        /\ \A idx \in DOMAIN confirms'[c].steps :
              ( /\ ComesTo(c, idx)
                /\ toLowerCase(confirms'[c].steps[idx].action) \in allowedExecutionActions
                /\ confirms'[c].steps[idx].node # ""
                /\ confirms'[c].steps[idx].numeric
                /\ buildResourceKey(confirms'[c].steps[idx].node,
                                    confirms'[c].steps[idx].vmid) \in SeenLocks(c, idx) )
              => /\ confirms'[c].pc = "notify"
                 /\ confirms'[c].resp =
                      Resp(500, "EXECUTION_FAILED",
                           << "Resource locked", confirms'[c].steps[idx].node,
                              confirms'[c].steps[idx].vmid >>)
                 /\ Issued(c)' = Issued(c)
                 /\ locks' = SeenLocks(c, idx)
        /\ ( /\ confirms[c].resp.code = "EXECUTION_FAILED"
             /\ confirms[c].resp.message[1] = "Resource locked" )
           => Issued(c)' = Issued(c)]_vars

\* A run of three steps found the lock of its first step held: it has answered
\* and has issued no call at all.
C29_Witness ==
  \E c \in ConfirmIds :
     /\ confirms[c].pc = "notify"
     /\ confirms[c].resp.code = "EXECUTION_FAILED"
     /\ confirms[c].resp.message[1] = "Resource locked"
     /\ Len(confirms[c].steps) = 3
     /\ Issued(c) = {}
     /\ buildResourceKey(confirms[c].steps[1].node, confirms[c].steps[1].vmid) \in locks

\* What the claim calls a malformed step.
Malformed(step) ==
  \/ toLowerCase(step.action) \notin {"start", "stop", "reboot"}
  \/ step.node = ""
  \/ ~step.numeric

\* C30: a run that comes to a step whose action is not start, stop or reboot,
\* whose node is empty or whose vmid is not a number fails in that very step as
\* an invalid step, takes no lock and issues no remote call.
C30_MalformedStepNotRun ==
  [][\A c \in ConfirmIds : \A idx \in DOMAIN confirms'[c].steps :
        ( ComesTo(c, idx) /\ Malformed(confirms'[c].steps[idx]) )
        => /\ confirms'[c].pc = "notify"
           /\ confirms'[c].resp.code = "EXECUTION_FAILED"
           /\ confirms'[c].resp.message[1] \in
                 {"Unsupported action", "Invalid step definition"}
           /\ Issued(c)' = Issued(c)
           /\ locks' = SeenLocks(c, idx)]_vars

\* A run whose only step has a vmid that is not a number has answered: no call
\* was made and no lock is held.
C30_Witness ==
  \E c \in ConfirmIds :
     /\ confirms[c].pc = "notify"
     /\ Len(confirms[c].steps) = 1
     /\ ~confirms[c].steps[1].numeric
     /\ confirms[c].resp.message = << "Invalid step definition", 0 >>
     /\ calls = {}
     /\ locks = {}

\* C31: the stored results of a COMPLETED proposal have one entry per step, the
\* entry at position i has index i, and every entry is a success.
C31_CompletedResultsAreFull ==
  \A p \in DOMAIN proposals :
     proposals[p].status = "COMPLETED"
     => /\ Len(proposals[p].results) = Len(proposals[p].steps)
        /\ \A i \in DOMAIN proposals[p].results :
              /\ proposals[p].results[i].index = i - 1
              /\ proposals[p].results[i].status = "success"

\* A proposal of two steps is COMPLETED, the first step after a retry.
C31_Witness ==
  \E p \in DOMAIN proposals :
     /\ proposals[p].status = "COMPLETED"
     /\ Len(proposals[p].steps) = 2
     /\ Len(proposals[p].results) = 2
     /\ \E r \in ConfirmCalls : r.pid = p /\ r.index = 0 /\ r.attempt = 2

\* C32: with dual control on, a direct stop or reboot never has a remote call;
\* when its acquire succeeds the handler leaves the lock table as it found it and
\* goes on to answer PENDING_APPROVAL, and when it answers, its idempotency key
\* is recorded.
C32_DestructiveSubmitIsHeld ==
  [][requireDualControl =>
       /\ \A r \in SubmitCalls' : r.action \notin {"stop", "reboot"}
       /\ \A s \in SubmitIds :
             /\ ( /\ submits[s].pc = "pool"
                  /\ submits[s].action \in {"stop", "reboot"}
                  /\ submits'[s].pc # "pool"
                  /\ submits'[s].resp.code # "POOL_FORBIDDEN"
                  /\ buildResourceKey(submits[s].node, submits[s].vmid) \notin locks )
                => /\ submits'[s].pc = "notify"
                   /\ submits'[s].resp.code = "PENDING_APPROVAL"
                   /\ locks' = locks
                   /\ calls' = calls
             /\ ( /\ submits[s].resp.code = "PENDING_APPROVAL"
                  /\ submits[s].pc = "notify"
                  /\ submits'[s].pc = "done" )
                => /\ isDuplicate(idempotencyCache', submits[s].key)
                   /\ submits'[s].resp.code = "PENDING_APPROVAL"
                   /\ locks' = locks
                   /\ calls' = calls]_vars

\* A direct stop under dual control has answered PENDING_APPROVAL: its key is
\* recorded, no call was made and no lock is held.
C32_Witness ==
  \E s \in SubmitIds :
     /\ requireDualControl
     /\ submits[s].pc = "done"
     /\ submits[s].action = "stop"
     /\ submits[s].resp.code = "PENDING_APPROVAL"
     /\ isDuplicate(idempotencyCache, submits[s].key)
     /\ calls = {}
     /\ locks = {}

\* The handler of operation h takes a step.
Moves(h) ==
  IF h[1] = "confirm" THEN confirms'[h[2]] # confirms[h[2]]
                      ELSE submits'[h[2]] # submits[h[2]]

\* C33: a key leaves the lock table only in a step of the operation that holds
\* it, that is whose acquire of the key succeeded and who has not released it.
C33_OnlyHolderReleases ==
  [][\A key \in locks \ locks' : \E h \in Holders(key) : Moves(h)]_vars

\* A direct action was refused the lock that a proposal run holds, and the key
\* is still in the table.
C33_Witness ==
  \E s \in SubmitIds, c \in ConfirmIds :
     LET key == buildResourceKey(submits[s].node, submits[s].vmid) IN
       /\ submits[s].pc = "done"
       /\ submits[s].resp.code = "RESOURCE_LOCKED"
       /\ Holders(key) = { << "confirm", c >> }
       /\ key \in locks

\* The positions of a record's mappings whose placeholder was minted for `type`,
\* told by the counter values the category has gone through.
MintedFor(rec, type) ==
  { i \in DOMAIN rec.mappings :
      \E n \in 1..rec.counters[type] : rec.mappings[i][1] = PlaceholderName(type, n) }

\* C34: in every live redaction record the placeholders of the mappings are
\* pairwise distinct, every one belongs to exactly one category, and the
\* placeholders of a category are numbered 1, 2, ... up to its counter in the
\* order they were minted.
C34_PlaceholdersAreDistinct ==
  \A p \in DOMAIN STORE :
     LET rec == STORE[p] IN
       /\ \A i, j \in DOMAIN rec.mappings :
             i # j => rec.mappings[i][1] # rec.mappings[j][1]
       /\ \A i \in DOMAIN rec.mappings :
             Cardinality({ t \in PLACEHOLDER_TYPES : i \in MintedFor(rec, t) }) = 1
       /\ \A t \in PLACEHOLDER_TYPES :
             /\ Cardinality(MintedFor(rec, t)) = rec.counters[t]
             /\ \A i, j \in MintedFor(rec, t) :
                   \A n, m \in 1..rec.counters[t] :
                      ( /\ rec.mappings[i][1] = PlaceholderName(t, n)
                        /\ rec.mappings[j][1] = PlaceholderName(t, m)
                        /\ i < j ) => n < m

\* One record has served two sanitize calls that minted placeholders of two
\* categories: four of them for IP addresses.
C34_Witness ==
  \E p \in DOMAIN STORE :
     /\ STORE[p].counters["IP"] = 4
     /\ STORE[p].counters["EMAIL"] = 2
     /\ Len(STORE[p].mappings) = 6
     /\ Len(sanitizerCalls) >= 2

\* C35: the destructive flag of a stored proposal tells whether one of its steps
\* is a stop or a reboot, whatever the case of the letters, and no step of the
\* program changes the flag or the steps of a proposal that is in the store.
C35_DestructiveIsFixed ==
  [][\A p \in DOMAIN proposals' :
        /\ proposals'[p].destructive =
              \E i \in DOMAIN proposals'[p].steps :
                 toLowerCase(proposals'[p].steps[i].action) \in {"stop", "reboot"}
        /\ p \in DOMAIN proposals =>
              /\ proposals'[p].destructive = proposals[p].destructive
              /\ proposals'[p].steps = proposals[p].steps]_vars

\* A proposal whose step is written REBOOT was approved twice under dual control
\* and executed: it is COMPLETED and still destructive.
C35_Witness ==
  \E p \in DOMAIN proposals :
     /\ proposals[p].steps[1].action = "REBOOT"
     /\ proposals[p].destructive
     /\ requireDualControl
     /\ Cardinality(proposals[p].approvals) = 2
     /\ proposals[p].status = "COMPLETED"

\* C36: whatever the sink does with the notification, the step in which a
\* handler comes back from it leaves the proposals alone and sends the response
\* prepared before it; a confirm takes or keeps no lock there, and a direct
\* action records its idempotency entry and no longer holds its lock.
C36_NotificationFailureIsSwallowed ==
  [][/\ \A c \in ConfirmIds :
          ( confirms[c].pc = "notify" /\ confirms'[c] # confirms[c] )
          => /\ confirms'[c].pc = "done"
             /\ confirms'[c].resp = confirms[c].resp
             /\ proposals' = proposals
             /\ locks' = locks
     /\ \A s \in SubmitIds :
          ( submits[s].pc = "notify" /\ submits'[s] # submits[s] )
          => /\ submits'[s].pc = "done"
             /\ submits'[s].resp = submits[s].resp
             /\ isDuplicate(idempotencyCache', submits[s].key)
             /\ idempotencyCache'[submits[s].key] = submits[s].resp.code
             /\ submits[s].holds =>
                   /\ buildResourceKey(submits[s].node, submits[s].vmid) \notin locks'
                   /\ ~submits'[s].holds
             /\ proposals' = proposals]_vars

\* The sink failed on the notification of a completed run and on that of a
\* direct action that went through: both handlers have answered OK, the proposal
\* is COMPLETED, the key is recorded and no lock is left.
C36_Witness ==
  \E c \in ConfirmIds, s \in SubmitIds :
     /\ confirms[c].pc = "done"
     /\ confirms[c].notified = "failed"
     /\ confirms[c].resp.code = "OK"
     /\ proposals[confirms[c].pid].status = "COMPLETED"
     /\ submits[s].pc = "done"
     /\ submits[s].notified = "failed"
     /\ submits[s].resp.code = "OK"
     /\ isDuplicate(idempotencyCache, submits[s].key)
     /\ locks = {}

\* This step is a direct call of the sanitizer; LastCall is its log entry.
IsCall == Len(sanitizerCalls') = Len(sanitizerCalls) + 1
LastCall == sanitizerCalls'[Len(sanitizerCalls')]

\* The deadline of the record of p has passed.
Expired(p) == STORE[p].expiresAt <= now

\* What a sanitize call does to the record of its own id: a record whose
\* deadline has passed is dropped and a new one started, a live one keeps its
\* mappings and counters; either way the deadline is one TTL from now.
SanitizeTouches(q) ==
  /\ q \in DOMAIN STORE'
  /\ STORE'[q].expiresAt = now + DEFAULT_TTL_MS
  /\ (q \in DOMAIN STORE /\ ~Expired(q)) =>
        /\ Len(STORE'[q].mappings) >= Len(STORE[q].mappings)
        /\ SubSeq(STORE'[q].mappings, 1, Len(STORE[q].mappings)) = STORE[q].mappings
        /\ \A t \in PLACEHOLDER_TYPES : STORE'[q].counters[t] >= STORE[q].counters[t]
  /\ (q \in DOMAIN STORE /\ Expired(q)) =>
        STORE'[q] = sanitizeForLLM(LastCall.input, q, << >>, now).store[q]

\* Every other record is left as it is unless it is removed.
OthersKept(q) ==
  \A p \in DOMAIN STORE' \ {q} : p \in DOMAIN STORE /\ STORE'[p] = STORE[p]

FailedAsInvalid(c) ==
  /\ confirms[c].pc = "notify"
  /\ confirms[c].resp.code = "EXECUTION_FAILED"
  /\ confirms[c].resp.message[1] \in {"Unsupported action", "Invalid step definition"}

\* C38: when a run fails on a malformed step, every step before the first
\* malformed one has had its remote call issued and answered with success.
C38_ValidationIsPerStep ==
  \A c \in ConfirmIds :
     FailedAsInvalid(c) =>
       \A k \in DOMAIN confirms[c].steps :
          ( \A i \in 1..(k - 1) : ~Malformed(confirms[c].steps[i]) )
          => \A i \in 1..(k - 1) : \E a \in Attempts(c, i - 1) : a.outcome = "ok"

\* A run of two steps whose second step is malformed: the call of the first step
\* was made and succeeded, then the run failed.
C38_Witness ==
  \E c \in ConfirmIds :
     /\ FailedAsInvalid(c)
     /\ Len(confirms[c].steps) = 2
     /\ Malformed(confirms[c].steps[2])
     /\ \E a \in Attempts(c, 0) : a.outcome = "ok"
     /\ Attempts(c, 1) = {}

\* C39: a propose request that waits for the generator gets its response, a
\* stored proposal or an error, whether or not the generator answers.
C39_ProposeReturns ==
  \A id \in ProposalIds :
     (id \in DOMAIN generating /\ generating[id].pc = "waiting")
       ~> (id \in DOMAIN generating /\ generating[id].pc = "done")

====
